---------------------------- MODULE Spec2Model ----------------------------
(***************************************************************************)
(* Four independent pieces of the repository are modelled here.           *)
(*                                                                         *)
(*  1. The legacy alerting route DELETE {legacyBase}/alert/{id}            *)
(*     (x-pack/plugins/alerting/server/routes/legacy/delete.ts).  The      *)
(*     handler is followed statement by statement; what the environment    *)
(*     does (license state, request context, rules client) is an oracle    *)
(*     carried by the request.  Specification: RouteSpec.                  *)
(*                                                                         *)
(*  2. The rule-type dependent state of StepDefineRuleComponent            *)
(*     (unnamed/part_000): the rule type, the value usePrevious() gives,   *)
(*     the queryBar field, esqlQueryRef and what the render shows.         *)
(*     Specifications: FormSpec (the user acts), HooksSpec (props and      *)
(*     hook results change).                                               *)
(*                                                                         *)
(*  3. The plugin configuration service as docs/extend/                    *)
(*     configuration-service.md describes it: schema declaration, reading  *)
(*     the config on the server, the exposeToBrowser allow-list.  Two      *)
(*     servers run the same plugin.  Specification: ConfigSpec.            *)
(*                                                                         *)
(*  4. The dashboard application as its functional tests drive it          *)
(*     (platform/test/functional/apps/dashboard): loading saved            *)
(*     dashboards, and the ES|QL inline editor with its control flyout.    *)
(*     Specification: DashboardSpec.                                       *)
(***************************************************************************)
EXTENDS Naturals, Sequences, FiniteSets, TLC

VARIABLES
    \* ---- legacy delete route ----
    licenseValid,      \* what verifyApiAccess(licenseState) will find
    pc,                \* position of the handler in the request being served
    req,               \* the request being served (path param + environment oracle)
    response,          \* the response the handler returned (status 0: none yet)
    thrown,            \* the error the handler raised to handleLegacyErrors ("" : none)
    calls,             \* the calls the handler made while serving this request
    trackedCount,      \* how often trackLegacyRouteUsage('delete', ...) ran in total
    \* ---- rule definition form ----
    ruleType,          \* the ruleType prop of the last render
    previousRuleType,  \* usePrevious(ruleType) as seen by the last render
    queryBar,          \* value of the queryBar field
    esqlQueryRef,      \* esqlQueryRef.current: {} when undefined, {v} otherwise
    view,              \* which rule-type rows the last render made visible
    queryBefore,       \* history: queryBar before the last render's effects
    refBefore,         \* history: esqlQueryRef before the last render's effects
    esqlLeftWith,      \* history: the ES|QL query in the bar when ES|QL was last left
    lastOp,            \* history: the operation that led to this state
    formState,         \* isSubmitted / isValid of the form hook
    formStateBefore,   \* history: formState before the last operation
    valueAfterFormReset, \* history: queryBar right after reset({ resetValues: false })
    layout,            \* query row, data source and editors of the last render
    suppression,       \* the alert suppression flags the last render computed
    \* ---- props and hook results the form is rendered with ----
    dataSourceType,    \* the dataSourceType prop
    license,           \* level of the license useLicense() gives
    mlRuleConfigLoading,      \* useMLRuleConfig().loading
    mlSuppressionFields,      \* useMLRuleConfig().mlSuppressionFields
    isEsqlSuppressionLoading, \* useAllEsqlRuleFields().isLoading
    alertSuppressionFields,   \* the alertSuppressionFields prop (may be undefined)
    isQueryBarValid,          \* the isQueryBarValid prop
    shouldLoadQueryDynamically, \* the shouldLoadQueryDynamically form field
    \* ---- plugin configuration service ----
    schemaDeclared,    \* the plugin exports config.schema
    exposeToBrowser,   \* the keys allow-listed in config.exposeToBrowser
    rawConfig,         \* per server: what kibana.yml sets for the plugin
    readResult,        \* per server: what the plugin got from config.create()
    clientConfig,      \* per server: what the browser side got from config.get()
    configOp,          \* history: the last operation of the service
    \* ---- dashboard application ----
    savedDataViews,    \* the data view saved objects that exist
    dashPage,          \* "landing", "view" or "edit"
    dashTitle,         \* the dashboard that is open ("" on the landing page)
    isLoading,         \* the global loading indicator
    panels,            \* the panels of the open dashboard
    esqlEditorOpen,    \* the inline ES|QL editor is shown
    esqlText,          \* the text in the editor, a sequence of tokens
    esqlCursor,        \* the cursor: number of tokens to its left
    suggestionsOpen,   \* the suggestion popup is open
    flyoutOpen,        \* create_esql_control_flyout is shown
    flyoutValues,      \* esqlValuesOptions chosen in the flyout
    controls,          \* the controls of the dashboard's controls group
    textAtFlyout,      \* history: esqlText when the flyout was opened
    cursorAtFlyout,    \* history: esqlCursor when the flyout was opened
    dashOp             \* history: the last operation of the application

routeVars == <<licenseValid, pc, req, response, thrown, calls, trackedCount>>
propVars  == <<dataSourceType, license, mlRuleConfigLoading, mlSuppressionFields,
               isEsqlSuppressionLoading, alertSuppressionFields, isQueryBarValid,
               shouldLoadQueryDynamically>>
formVars  == <<ruleType, previousRuleType, queryBar, esqlQueryRef, view,
               queryBefore, refBefore, esqlLeftWith, lastOp,
               formState, formStateBefore, valueAfterFormReset, layout,
               suppression, propVars>>
configVars == <<schemaDeclared, exposeToBrowser, rawConfig, readResult, clientConfig,
                configOp>>
dashVars  == <<savedDataViews, dashPage, dashTitle, isLoading, panels, esqlEditorOpen,
               esqlText, esqlCursor, suggestionsOpen, flyoutOpen, flyoutValues,
               controls, textAtFlyout, cursorAtFlyout, dashOp>>
vars      == <<routeVars, formVars, configVars, dashVars>>
\* What the operations of one piece leave alone
notRouteVars  == <<formVars, configVars, dashVars>>
notFormVars   == <<routeVars, configVars, dashVars>>
notConfigVars == <<routeVars, formVars, dashVars>>
notDashVars   == <<routeVars, formVars, configVars>>

(***************************************************************************)
(* Bounds                                                                  *)
(***************************************************************************)
MaxTracked == 2
\* Longest text (in tokens) the ES|QL editor holds
MaxTextLen == 5

(***************************************************************************)
(* ---------------------- legacy delete route ---------------------------- *)
(***************************************************************************)
RuleIds == {"rule-1", "rule-2", "rule-3"}

NoRequest  == [id |-> "", alerting |-> FALSE, getRulesClientThrows |-> FALSE,
               deleteThrows |-> FALSE]
NoResponse == [status |-> 0, body |-> ""]

Requests == [id : RuleIds, alerting : BOOLEAN, getRulesClientThrows : BOOLEAN,
             deleteThrows : BOOLEAN]

\* res.badRequest({ body: '...' })
badRequest(body) == [status |-> 400, body |-> body]

\* Mutation of noContent: answers 200 with a body
noContent_Ok200 == [status |-> 200, body |-> "{}"]

\* res.noContent()
noContent == [status |-> 204, body |-> ""]

NotRegisteredBody == "RouteHandlerContext is not registered for alerting"

\* Mutation of paramSchema: the id handed on is not the one that came
paramSchema_Fixed(r) == [id |-> "rule-1"]

\* paramSchema: { id: schema.string() }; the validated params carry the id as it came
paramSchema(r) == [id |-> r.id]

RouteInit ==
    /\ licenseValid \in BOOLEAN
    /\ pc = "idle"
    /\ req = NoRequest
    /\ response = NoResponse
    /\ thrown = ""
    /\ calls = <<>>
    /\ trackedCount = 0

\* The router hands a validated DELETE request to the handler.
Receive(r) ==
    /\ pc = "idle"
    /\ trackedCount < MaxTracked
    /\ req' = r
    /\ pc' = "verifyApiAccess"
    /\ response' = NoResponse
    /\ thrown' = ""
    /\ calls' = <<>>
    /\ UNCHANGED <<licenseValid, trackedCount>>
    /\ UNCHANGED notRouteVars

\* Mutation of verifyApiAccess: the failed license check does not stop the handler
verifyApiAccess_NoThrow ==
    /\ pc = "verifyApiAccess"
    /\ calls' = Append(calls, [fn |-> "verifyApiAccess", arg |-> ""])
    /\ pc' = "checkContext"
    /\ thrown' = IF licenseValid THEN thrown ELSE "license"
    /\ UNCHANGED <<licenseValid, req, response, trackedCount>>
    /\ UNCHANGED notRouteVars

\* verifyApiAccess(licenseState): throws when the license does not allow the API
verifyApiAccess ==
    /\ pc = "verifyApiAccess"
    /\ calls' = Append(calls, [fn |-> "verifyApiAccess", arg |-> ""])
    /\ IF licenseValid
         THEN /\ pc' = "checkContext"
              /\ thrown' = thrown
         ELSE /\ pc' = "done"
              /\ thrown' = "license"
    /\ UNCHANGED <<licenseValid, req, response, trackedCount>>
    /\ UNCHANGED notRouteVars

\* Mutation of checkContext: the missing context is not noticed
checkContext_NoGuard ==
    /\ pc = "checkContext"
    /\ response' = response
    /\ pc' = "trackLegacyRouteUsage"
    /\ UNCHANGED <<licenseValid, req, thrown, calls, trackedCount>>
    /\ UNCHANGED notRouteVars

\* if (!context.alerting) return res.badRequest({...})
checkContext ==
    /\ pc = "checkContext"
    /\ IF ~req.alerting
         THEN /\ response' = badRequest(NotRegisteredBody)
              /\ pc' = "done"
         ELSE /\ response' = response
              /\ pc' = "trackLegacyRouteUsage"
    /\ UNCHANGED <<licenseValid, req, thrown, calls, trackedCount>>
    /\ UNCHANGED notRouteVars

\* trackLegacyRouteUsage('delete', usageCounter)
trackLegacyRouteUsage ==
    /\ pc = "trackLegacyRouteUsage"
    /\ calls' = Append(calls, [fn |-> "trackLegacyRouteUsage", arg |-> "delete"])
    /\ trackedCount' = trackedCount + 1
    /\ pc' = "getRulesClient"
    /\ UNCHANGED <<licenseValid, req, response, thrown>>
    /\ UNCHANGED notRouteVars

\* const rulesClient = (await context.alerting).getRulesClient()
getRulesClient ==
    /\ pc = "getRulesClient"
    /\ calls' = Append(calls, [fn |-> "getRulesClient", arg |-> ""])
    /\ IF req.getRulesClientThrows
         THEN /\ pc' = "done"
              /\ thrown' = "getRulesClient"
         ELSE /\ pc' = "delete"
              /\ thrown' = thrown
    /\ UNCHANGED <<licenseValid, req, response, trackedCount>>
    /\ UNCHANGED notRouteVars

\* Mutation of rulesClientDelete: an error of rulesClient.delete is swallowed
rulesClientDelete_Swallow ==
    /\ pc = "delete"
    /\ calls' = Append(calls, [fn |-> "rulesClient.delete", arg |-> paramSchema(req).id])
    /\ pc' = "noContent"
    /\ thrown' = thrown
    /\ UNCHANGED <<licenseValid, req, response, trackedCount>>
    /\ UNCHANGED notRouteVars

\* const { id } = req.params; await rulesClient.delete({ id })
rulesClientDelete ==
    /\ pc = "delete"
    /\ calls' = Append(calls, [fn |-> "rulesClient.delete", arg |-> paramSchema(req).id])
    /\ IF req.deleteThrows
         THEN /\ pc' = "done"
              /\ thrown' = "delete"
         ELSE /\ pc' = "noContent"
              /\ thrown' = thrown
    /\ UNCHANGED <<licenseValid, req, response, trackedCount>>
    /\ UNCHANGED notRouteVars

\* return res.noContent()
returnNoContent ==
    /\ pc = "noContent"
    /\ response' = noContent
    /\ pc' = "done"
    /\ UNCHANGED <<licenseValid, req, thrown, calls, trackedCount>>
    /\ UNCHANGED notRouteVars

\* The request is over; the router is ready for the next one.
Finish ==
    /\ pc = "done"
    /\ pc' = "idle"
    /\ UNCHANGED <<licenseValid, req, response, thrown, calls, trackedCount>>
    /\ UNCHANGED notRouteVars

\* The license changes under the server (ILicenseState is live state).
LicenseChange ==
    /\ licenseValid' = ~licenseValid
    /\ UNCHANGED <<pc, req, response, thrown, calls, trackedCount>>
    /\ UNCHANGED notRouteVars

(***************************************************************************)
(* ---------------------- rule definition form --------------------------- *)
(***************************************************************************)
\* Type of @kbn/securitysolution-io-ts-alerting-types, the type of the ruleType prop
RuleTypes == {"eql", "esql", "machine_learning", "new_terms", "query",
              "saved_query", "threat_match", "threshold"}

\* usePrevious() gives undefined on the first render
UNDEFINED == "undefined"

isEqlRule(t)         == t = "eql"
isEsqlRule(t)        == t = "esql"
isMlRule(t)          == t = "machine_learning"
isNewTermsRule(t)    == t = "new_terms"
isThreatMatchRule(t) == t = "threat_match"
getIsThresholdRule(t) == t = "threshold"

\* DefineStepRule['queryBar']: { query: { query, language }, filters, saved_id }
FieldValue(text, language, filters) ==
    [query |-> [query |-> text, language |-> language],
     filters |-> filters, saved_id |-> "null"]

defaultCustomQuery ==
    [forNormalRules      |-> FieldValue("", "kuery", <<>>),
     forThreatMatchRules |-> FieldValue("*:*", "kuery", <<>>),
     forEsqlRules        |-> FieldValue("", "esql", <<>>)]

\* What the user can type, and the filters the user can add
QueryTexts == {"", "*:*", "host.name: a"}
FilterSets == {<<>>, <<"filter-1">>}

\* The editor rendered for a rule type decides the language of what is typed:
\* EqlQueryEdit for eql, EsqlQueryBarMemo for esql, QueryBarMemo otherwise;
\* the whole row is hidden for machine learning rules.
EditorLanguages(t) ==
    IF isMlRule(t) THEN {}
    ELSE IF isEqlRule(t) THEN {"eql"}
    ELSE IF isEsqlRule(t) THEN {"esql"}
    ELSE {"kuery", "lucene"}

\* An EQL sequence query, as the EQL editor lets the user write it
SequenceTexts == {"sequence [process where true] [network where true]"}

EditorTexts(t) == IF isEqlRule(t) THEN QueryTexts \cup SequenceTexts ELSE QueryTexts

EditorValues(t) ==
    {FieldValue(q, l, f) : q \in EditorTexts(t), l \in EditorLanguages(t), f \in FilterSets}

\* Queries a saved timeline can hand to handleSetRuleFromTimeline
TimelineValues ==
    {FieldValue(q, l, <<>>) : q \in QueryTexts \ {""}, l \in {"kuery", "eql"}}

\* Values the form prop can hold when the component is constructed: the
\* creation default, or the query of the rule being edited.
InitialValues(t) ==
    IF isEsqlRule(t) THEN EditorValues(t)
    ELSE {defaultCustomQuery.forNormalRules} \cup EditorValues(t)

\* esqlQueryRef.current ?? dflt
Coalesce(ref, dflt) == IF ref = {} THEN dflt ELSE CHOOSE v \in ref : TRUE

\* Mutation of ThreatMatchEffect: the default is not put back on leaving threat_match
ThreatMatchEffect_NoResetBack(rt, prev, value) ==
    IF /\ isThreatMatchRule(rt) /\ ~isThreatMatchRule(prev)
       /\ value = defaultCustomQuery.forNormalRules
      THEN defaultCustomQuery.forThreatMatchRules
    ELSE value

\* Mutation of ThreatMatchEffect: the field is reset without comparing its value
ThreatMatchEffect_AlwaysReset(rt, prev, value) ==
    IF isThreatMatchRule(rt) /\ ~isThreatMatchRule(prev)
      THEN defaultCustomQuery.forThreatMatchRules
    ELSE IF ~isThreatMatchRule(rt) /\ isThreatMatchRule(prev)
      THEN defaultCustomQuery.forNormalRules
    ELSE value

\* The effect of lines 290-333; gives the value of the queryBar field after it.
ThreatMatchEffect(rt, prev, value) ==
    IF /\ isThreatMatchRule(rt) /\ ~isThreatMatchRule(prev)
       /\ value = defaultCustomQuery.forNormalRules
      THEN defaultCustomQuery.forThreatMatchRules
    ELSE IF /\ ~isThreatMatchRule(rt) /\ isThreatMatchRule(prev)
            /\ value = defaultCustomQuery.forThreatMatchRules
      THEN defaultCustomQuery.forNormalRules
    ELSE value

\* Mutation of EsqlEffect: only the first ES|QL query ever left is remembered
EsqlEffect_KeepFirst(rt, prev, value, ref) ==
    IF isEsqlRule(rt)
      THEN IF prev # UNDEFINED /\ ~isEsqlRule(prev)
             THEN [value |-> Coalesce(ref, defaultCustomQuery.forEsqlRules), ref |-> ref]
             ELSE [value |-> value, ref |-> ref]
    ELSE IF isEsqlRule(prev)
      THEN [value |-> IF isThreatMatchRule(rt)
                        THEN defaultCustomQuery.forThreatMatchRules
                        ELSE defaultCustomQuery.forNormalRules,
            ref   |-> IF value.query.language = "esql" /\ ref = {} THEN {value} ELSE ref]
    ELSE [value |-> value, ref |-> ref]

\* Mutation of EsqlEffect: the field is reset only when a saved query exists
EsqlEffect_OnlySaved(rt, prev, value, ref) ==
    IF isEsqlRule(rt)
      THEN IF prev # UNDEFINED /\ ~isEsqlRule(prev) /\ ref # {}
             THEN [value |-> Coalesce(ref, defaultCustomQuery.forEsqlRules), ref |-> ref]
             ELSE [value |-> value, ref |-> ref]
    ELSE IF isEsqlRule(prev)
      THEN [value |-> IF isThreatMatchRule(rt)
                        THEN defaultCustomQuery.forThreatMatchRules
                        ELSE defaultCustomQuery.forNormalRules,
            ref   |-> IF value.query.language = "esql" THEN {value} ELSE ref]
    ELSE [value |-> value, ref |-> ref]

\* Mutation of EsqlEffect: leaving ES|QL always resets to the normal default
EsqlEffect_NormalOnly(rt, prev, value, ref) ==
    IF isEsqlRule(rt)
      THEN IF prev # UNDEFINED /\ ~isEsqlRule(prev)
             THEN [value |-> Coalesce(ref, defaultCustomQuery.forEsqlRules), ref |-> ref]
             ELSE [value |-> value, ref |-> ref]
    ELSE IF isEsqlRule(prev)
      THEN [value |-> defaultCustomQuery.forNormalRules,
            ref   |-> IF value.query.language = "esql" THEN {value} ELSE ref]
    ELSE [value |-> value, ref |-> ref]

\* The effect of lines 340-370; gives the field value and esqlQueryRef after it.
EsqlEffect(rt, prev, value, ref) ==
    IF isEsqlRule(rt)
      THEN IF prev # UNDEFINED /\ ~isEsqlRule(prev)
             THEN [value |-> Coalesce(ref, defaultCustomQuery.forEsqlRules), ref |-> ref]
             ELSE [value |-> value, ref |-> ref]
    ELSE IF isEsqlRule(prev)
      THEN [value |-> IF isThreatMatchRule(rt)
                        THEN defaultCustomQuery.forThreatMatchRules
                        ELSE defaultCustomQuery.forNormalRules,
            ref   |-> IF value.query.language = "esql" THEN {value} ELSE ref]
    ELSE [value |-> value, ref |-> ref]

\* The effects of one commit, in the order the component declares them.
RunEffects(rt, prev, value, ref) ==
    EsqlEffect(rt, prev, ThreatMatchEffect(rt, prev, value), ref)

\* Mutation of RenderRows: the threshold row is tied to the wrong rule type
RenderRows_Swapped(t) ==
    [mlJobAndAnomalyThreshold |-> isMlRule(t),
     thresholdInput           |-> isThreatMatchRule(t),
     threatMatchInput         |-> isThreatMatchRule(t),
     newTermsInput            |-> isNewTermsRule(t)]

\* $isVisible of the rule-type rows of the render (lines 806-890)
RenderRows(t) ==
    [mlJobAndAnomalyThreshold |-> isMlRule(t),
     thresholdInput           |-> getIsThresholdRule(t),
     threatMatchInput         |-> isThreatMatchRule(t),
     newTermsInput            |-> isNewTermsRule(t)]

isQueryRule(t) == t = "query" \/ t = "saved_query"

\* DataSourceType of detections/pages/detection_engine/rules/types
DataSourceTypes == {"indexPatterns", "dataView"}

\* The query row of the render (lines 746-774) and the two containers of
\* DataSource (lines 580-611).  A container nested in a hidden row is hidden.
\* Mutation of RenderLayout: the data source stays visible for ES|QL rules
RenderLayout_EsqlSource(t, dst) ==
    [queryRow          |-> ~isMlRule(t),
     dataSource        |-> ~isMlRule(t),
     eqlQueryEdit      |-> isEqlRule(t),
     esqlQueryBar      |-> ~isEqlRule(t) /\ isEsqlRule(t),
     queryBarMemo      |-> ~isEqlRule(t) /\ ~isEsqlRule(t),
     dataViewSelector  |-> dst = "dataView",
     indexPatternInput |-> dst = "indexPatterns"]

RenderLayout(t, dst) ==
    [queryRow          |-> ~isMlRule(t),
     dataSource        |-> ~isMlRule(t) /\ ~isEsqlRule(t),
     eqlQueryEdit      |-> isEqlRule(t),
     esqlQueryBar      |-> ~isEqlRule(t) /\ isEsqlRule(t),
     queryBarMemo      |-> ~isEqlRule(t) /\ ~isEsqlRule(t),
     dataViewSelector  |-> dst = "dataView",
     indexPatternInput |-> dst = "indexPatterns"]

\* The state a form hook has before anything was validated or submitted
PristineFormState == [isSubmitted |-> FALSE, isValid |-> "undefined"]

\* form.reset(options) of the form library: the validation and submission
\* state is cleared; the field values go back to the form defaults only when
\* options.resetValues is set.
FormReset(options, st, value) ==
    [state |-> PristineFormState,
     value |-> IF options.resetValues THEN defaultCustomQuery.forNormalRules ELSE value]

\* Mutation of ResetFormEffect: the form is reset with its values
ResetFormEffect_ResetValues(rt, st, value) ==
    IF rt # ruleType
      THEN FormReset([resetValues |-> TRUE], st, value)
      ELSE [state |-> st, value |-> value]

\* The effect of lines 271-274, run when ruleType changed: reset({ resetValues: false })
ResetFormEffect(rt, st, value) ==
    IF rt # ruleType
      THEN FormReset([resetValues |-> FALSE], st, value)
      ELSE [state |-> st, value |-> value]

\* alertSuppressionFields?: string[] -- the prop is undefined or a list
UndefinedFields == [defined |-> FALSE, value |-> <<>>]
FieldList(fs)   == [defined |-> TRUE, value |-> fs]
SuppressionSelections ==
    {UndefinedFields, FieldList(<<>>), FieldList(<<"host.name">>),
     FieldList(<<"host.name", "user.name">>)}

\* alertSuppressionFields?.length === 0
LengthIsZero(f) == f.defined /\ Len(f.value) = 0
\* Boolean(alertSuppressionFields?.length)
LengthIsTruthy(f) == f.defined /\ Len(f.value) > 0

LicenseLevels == {"basic", "platinum", "enterprise"}
LicenseRank(l) == CASE l = "basic" -> 1 [] l = "platinum" -> 3 [] l = "enterprise" -> 4
MINIMUM_LICENSE_FOR_SUPPRESSION == "platinum"
\* license.isAtLeast(minimum)
isAtLeast(l, minimum) == LicenseRank(l) >= LicenseRank(minimum)

isEqlSequenceQuery(text) == text \in SequenceTexts

\* Mutation of RenderSuppression: a selection does not keep the input enabled
RenderSuppression_IgnoreSelected(rt, value, asf, lic, mlLoading, mlFields, esqlLoading) ==
    LET bySequence == /\ isEqlRule(rt)
                      /\ isEqlSequenceQuery(value.query.query)
                      /\ LengthIsZero(asf)
        byMlFields == isMlRule(rt) /\ (mlLoading \/ mlFields = {})
        disabled   == \/ ~isAtLeast(lic, MINIMUM_LICENSE_FOR_SUPPRESSION)
                      \/ bySequence
                      \/ byMlFields
    IN  [areSuppressionFieldsSelected           |-> getIsThresholdRule(rt) \/ LengthIsTruthy(asf),
         areSuppressionFieldsDisabledBySequence |-> bySequence,
         areSuppressionFieldsDisabledByMlFields |-> byMlFields,
         areSuppressionFieldsDisabled           |-> disabled,
         isSuppressionGroupByDisabled           |-> disabled \/ esqlLoading]

\* The alert suppression flags of lines 448-474
RenderSuppression(rt, value, asf, lic, mlLoading, mlFields, esqlLoading) ==
    LET selected   == getIsThresholdRule(rt) \/ LengthIsTruthy(asf)
        bySequence == /\ isEqlRule(rt)
                      /\ isEqlSequenceQuery(value.query.query)
                      /\ LengthIsZero(asf)
        byMlFields == isMlRule(rt) /\ (mlLoading \/ mlFields = {})
        disabled   == \/ ~isAtLeast(lic, MINIMUM_LICENSE_FOR_SUPPRESSION)
                      \/ bySequence
                      \/ byMlFields
    IN  [areSuppressionFieldsSelected           |-> selected,
         areSuppressionFieldsDisabledBySequence |-> bySequence,
         areSuppressionFieldsDisabledByMlFields |-> byMlFields,
         areSuppressionFieldsDisabled           |-> disabled,
         isSuppressionGroupByDisabled           |-> (disabled \/ esqlLoading) /\ ~selected]

\* handleSavedQueryError (lines 376-380): the value of shouldLoadQueryDynamically after it
handleSavedQueryError(valid, shouldLoad) == IF ~valid THEN FALSE ELSE shouldLoad

\* One render of the component with ruleType prop rt while the field holds
\* value and the form hook is in state st: usePrevious hands out the rule type
\* of the render before, the rows are laid out from the props of this render
\* (the primed props, set by the operation that caused it), and the effects
\* run if one of their dependencies changed.
RenderWith(rt, value, st, op) ==
    LET prev == ruleType
        depsChanged == rt # ruleType \/ prev # previousRuleType
        reset == ResetFormEffect(rt, st, value)
        after == IF depsChanged THEN RunEffects(rt, prev, reset.value, esqlQueryRef)
                 ELSE [value |-> reset.value, ref |-> esqlQueryRef]
    IN  /\ ruleType' = rt
        /\ previousRuleType' = prev
        /\ queryBar' = after.value
        /\ esqlQueryRef' = after.ref
        /\ view' = RenderRows(rt)
        /\ queryBefore' = value
        /\ refBefore' = esqlQueryRef
        /\ esqlLeftWith' = IF isEsqlRule(ruleType) /\ ~isEsqlRule(rt)
                             THEN (IF value.query.language = "esql" THEN {value} ELSE {})
                             ELSE esqlLeftWith
        /\ lastOp' = op
        /\ formState' = reset.state
        /\ formStateBefore' = formState
        /\ valueAfterFormReset' = reset.value
        /\ layout' = RenderLayout(rt, dataSourceType')
        /\ suppression' = RenderSuppression(rt, after.value, alertSuppressionFields',
                              license', mlRuleConfigLoading', mlSuppressionFields',
                              isEsqlSuppressionLoading')

Render(rt, value, op) == RenderWith(rt, value, formState, op)

\* The state after the component has mounted: first render, previousRuleType
\* undefined, effects run once.
FormInit ==
    \E t \in RuleTypes : \E v \in InitialValues(t) :
        LET after == RunEffects(t, UNDEFINED, v, {})
        IN  /\ ruleType = t
            /\ previousRuleType = UNDEFINED
            /\ queryBar = after.value
            /\ esqlQueryRef = after.ref
            /\ view = RenderRows(t)
            /\ queryBefore = v
            /\ refBefore = {}
            /\ esqlLeftWith = {}
            /\ lastOp = "mount"
            /\ formState = PristineFormState
            /\ formStateBefore = PristineFormState
            /\ valueAfterFormReset = v
            /\ dataSourceType \in DataSourceTypes
            /\ license \in LicenseLevels
            /\ mlRuleConfigLoading \in BOOLEAN
            /\ mlSuppressionFields \in {{}, {"by_field"}}
            /\ isEsqlSuppressionLoading \in BOOLEAN
            /\ alertSuppressionFields \in {UndefinedFields, FieldList(<<>>)}
            /\ isQueryBarValid \in BOOLEAN
            /\ shouldLoadQueryDynamically \in BOOLEAN
            /\ layout = RenderLayout(t, dataSourceType)
            /\ suppression = RenderSuppression(t, after.value, alertSuppressionFields,
                                 license, mlRuleConfigLoading, mlSuppressionFields,
                                 isEsqlSuppressionLoading)

\* Props and hook results that stay as they are during a user operation
HooksUnchanged ==
    UNCHANGED <<license, mlRuleConfigLoading, mlSuppressionFields,
                isEsqlSuppressionLoading, alertSuppressionFields, isQueryBarValid,
                shouldLoadQueryDynamically>>

\* The user picks another rule type in SelectRuleType.
ChangeRuleType(t) ==
    /\ t # ruleType
    /\ UNCHANGED dataSourceType
    /\ HooksUnchanged
    /\ Render(t, queryBar, "changeRuleType")
    /\ UNCHANGED notFormVars

\* The user edits the query (text, language or filters) in the visible editor.
EditQuery(v) ==
    /\ v \in EditorValues(ruleType)
    /\ v # queryBar
    /\ UNCHANGED dataSourceType
    /\ HooksUnchanged
    /\ Render(ruleType, v, "editQuery")
    /\ UNCHANGED notFormVars

\* A render that follows a state update with the same rule type
\* (for instance the one the field reset of an effect causes).
Rerender ==
    /\ previousRuleType # ruleType
    /\ UNCHANGED dataSourceType
    /\ HooksUnchanged
    /\ Render(ruleType, queryBar, "rerender")
    /\ UNCHANGED notFormVars

\* handleSetRuleFromTimeline: the query of a saved timeline is imported through
\* the generic query bar.  An EQL timeline first switches the rule type to eql
\* (one render, effects included) and then sets the query; any other timeline
\* sets the query directly.  Either way a render with the new value follows.
SetRuleFromTimeline(v) ==
    /\ EditorLanguages(ruleType) = {"kuery", "lucene"}
    /\ UNCHANGED dataSourceType
    /\ HooksUnchanged
    /\ LET rt    == IF v.query.language = "eql" THEN "eql" ELSE ruleType
           reset == ResetFormEffect(rt, formState, queryBar)
           first == IF rt # ruleType
                      THEN RunEffects(rt, ruleType, reset.value, esqlQueryRef)
                      ELSE [value |-> queryBar, ref |-> esqlQueryRef]
       IN  /\ ruleType' = rt
           /\ previousRuleType' = rt
           /\ queryBar' = v
           /\ esqlQueryRef' = first.ref
           /\ view' = RenderRows(rt)
           /\ queryBefore' = queryBar
           /\ refBefore' = esqlQueryRef
           /\ esqlLeftWith' = esqlLeftWith
           /\ lastOp' = "setRuleFromTimeline"
           /\ formState' = reset.state
           /\ formStateBefore' = formState
           /\ valueAfterFormReset' = reset.value
           /\ layout' = RenderLayout(rt, dataSourceType')
           /\ suppression' = RenderSuppression(rt, v, alertSuppressionFields',
                                 license', mlRuleConfigLoading', mlSuppressionFields',
                                 isEsqlSuppressionLoading')
    /\ UNCHANGED notFormVars

\* onChangeDataSource: the user toggles between data view and index patterns;
\* the index and dataViewId fields are reset without their values.
onChangeDataSource(optionId) ==
    /\ layout.dataSource
    /\ optionId # dataSourceType
    /\ dataSourceType' = optionId
    /\ HooksUnchanged
    /\ Render(ruleType, queryBar, "onChangeDataSource")
    /\ UNCHANGED notFormVars

\* The form is validated (the user asks to continue): the form hook records
\* the submission and whether the fields were valid.
ValidateForm(ok) ==
    /\ UNCHANGED dataSourceType
    /\ HooksUnchanged
    /\ RenderWith(ruleType, queryBar,
                  [isSubmitted |-> TRUE, isValid |-> IF ok THEN "true" ELSE "false"],
                  "validate")
    /\ formState' # formState
    /\ UNCHANGED notFormVars

\* ---- props and hook results change; each change re-renders the component ----
\* useLicense() reports another license level.
LicenseLevelChange(l) ==
    /\ l # license
    /\ license' = l
    /\ UNCHANGED <<dataSourceType, mlRuleConfigLoading, mlSuppressionFields,
                   isEsqlSuppressionLoading, alertSuppressionFields, isQueryBarValid,
                   shouldLoadQueryDynamically>>
    /\ Render(ruleType, queryBar, "propsChange")
    /\ UNCHANGED notFormVars

\* useMLRuleConfig() reports another loading state or other ML fields.
MlRuleConfigChange(loading, fields) ==
    /\ <<loading, fields>> # <<mlRuleConfigLoading, mlSuppressionFields>>
    /\ mlRuleConfigLoading' = loading
    /\ mlSuppressionFields' = fields
    /\ UNCHANGED <<dataSourceType, license, isEsqlSuppressionLoading,
                   alertSuppressionFields, isQueryBarValid, shouldLoadQueryDynamically>>
    /\ Render(ruleType, queryBar, "propsChange")
    /\ UNCHANGED notFormVars

\* useAllEsqlRuleFields() starts or ends loading.
EsqlFieldsLoadingChange ==
    /\ isEsqlSuppressionLoading' = ~isEsqlSuppressionLoading
    /\ UNCHANGED <<dataSourceType, license, mlRuleConfigLoading, mlSuppressionFields,
                   alertSuppressionFields, isQueryBarValid, shouldLoadQueryDynamically>>
    /\ Render(ruleType, queryBar, "propsChange")
    /\ UNCHANGED notFormVars

\* The alertSuppressionFields prop changes: the form data arrives or the user
\* changes the selection.
SetAlertSuppressionFields(f) ==
    /\ f.defined
    /\ f # alertSuppressionFields
    /\ alertSuppressionFields' = f
    /\ UNCHANGED <<dataSourceType, license, mlRuleConfigLoading, mlSuppressionFields,
                   isEsqlSuppressionLoading, isQueryBarValid, shouldLoadQueryDynamically>>
    /\ Render(ruleType, queryBar, "propsChange")
    /\ UNCHANGED notFormVars

\* setIsQueryBarValid, called by the query editor through onValidityChange
SetIsQueryBarValid(valid) ==
    /\ valid # isQueryBarValid
    /\ isQueryBarValid' = valid
    /\ UNCHANGED <<dataSourceType, license, mlRuleConfigLoading, mlSuppressionFields,
                   isEsqlSuppressionLoading, alertSuppressionFields,
                   shouldLoadQueryDynamically>>
    /\ Render(ruleType, queryBar, "propsChange")
    /\ UNCHANGED notFormVars

\* The user ticks or unticks the shouldLoadQueryDynamically checkbox (lines 782-805).
ToggleShouldLoadQueryDynamically ==
    /\ isQueryRule(ruleType)
    /\ shouldLoadQueryDynamically' = ~shouldLoadQueryDynamically
    /\ UNCHANGED <<dataSourceType, license, mlRuleConfigLoading, mlSuppressionFields,
                   isEsqlSuppressionLoading, alertSuppressionFields, isQueryBarValid>>
    /\ Render(ruleType, queryBar, "propsChange")
    /\ UNCHANGED notFormVars

\* QueryBarMemo reports that the saved query could not be loaded: onSavedQueryError
SavedQueryError ==
    /\ layout.queryBarMemo
    /\ shouldLoadQueryDynamically' =
          handleSavedQueryError(isQueryBarValid, shouldLoadQueryDynamically)
    /\ UNCHANGED <<dataSourceType, license, mlRuleConfigLoading, mlSuppressionFields,
                   isEsqlSuppressionLoading, alertSuppressionFields, isQueryBarValid>>
    /\ Render(ruleType, queryBar, "savedQueryError")
    /\ UNCHANGED notFormVars

(***************************************************************************)
(* ------------------ plugin configuration service ----------------------- *)
(***************************************************************************)
Servers == {"server-1", "server-2"}
\* The properties of the example schema
ConfigKeys == {"secret", "uiProp"}
\* kibana.yml either leaves a property out or sets it
UNSET == "unset"
YmlValues == {UNSET, "from kibana.yml"}
\* schema.string({ defaultValue }) of the example
defaultValue(k) == IF k = "secret" THEN "Only on server" ELSE "Accessible from client"
\* Validation against the schema: a property left out takes its default
validate(raw) == [k \in ConfigKeys |-> IF raw[k] = UNSET THEN defaultValue(k) ELSE raw[k]]

NotRead == [status |-> "not read"]
ConfigError == [status |-> "error"]
ConfigValue(c) == [status |-> "ok", value |-> c]
NotRequested == [status |-> "not requested"]

\* Mutation of configCreate: without a schema the raw config is handed out
configCreate_NoSchemaCheck(declared, raw) ==
    IF declared THEN ConfigValue(validate(raw)) ELSE ConfigValue(raw)

\* initializerContext.config.create() on the server: ConfigService throws
\* when the plugin declared no schema, else gives the validated config
configCreate(declared, raw) ==
    IF declared THEN ConfigValue(validate(raw)) ELSE ConfigError

\* Mutation of configGet: the whole config goes to the browser
configGet_All(declared, allow, raw) ==
    LET c == validate(raw) IN ConfigValue([k \in ConfigKeys |-> c[k]])

\* initializerContext.config.get() on the client: the validated config
\* restricted to the properties exposeToBrowser allow-lists
configGet(declared, allow, raw) ==
    LET c == validate(raw) IN ConfigValue([k \in allow |-> c[k]])

\* The plugin as defined (with or without schema; exposeToBrowser is a field
\* of the config descriptor next to the schema) and the kibana.yml of each
\* server; nothing read yet.
ConfigInit ==
    /\ schemaDeclared \in BOOLEAN
    /\ exposeToBrowser \in SUBSET ConfigKeys
    /\ ~schemaDeclared => exposeToBrowser = {}
    /\ rawConfig \in [Servers -> [ConfigKeys -> YmlValues]]
    /\ readResult = [s \in Servers |-> NotRead]
    /\ clientConfig = [s \in Servers |-> NotRequested]
    /\ configOp = "start"

\* The server-side plugin of server s reads its config.
ReadConfig(s) ==
    /\ readResult[s] = NotRead
    /\ readResult' = [readResult EXCEPT ![s] = configCreate(schemaDeclared, rawConfig[s])]
    /\ configOp' = "read"
    /\ UNCHANGED <<schemaDeclared, exposeToBrowser, rawConfig, clientConfig>>
    /\ UNCHANGED notConfigVars

\* The client-side plugin served by server s gets its config.
GetClientConfig(s) ==
    /\ clientConfig[s] = NotRequested
    /\ clientConfig' = [clientConfig EXCEPT
                          ![s] = configGet(schemaDeclared, exposeToBrowser, rawConfig[s])]
    /\ configOp' = "get"
    /\ UNCHANGED <<schemaDeclared, exposeToBrowser, rawConfig, readResult>>
    /\ UNCHANGED notConfigVars

\* Server s restarts: the plugins are set up again.
RestartServer(s) ==
    /\ readResult[s] # NotRead \/ clientConfig[s] # NotRequested
    /\ readResult' = [readResult EXCEPT ![s] = NotRead]
    /\ clientConfig' = [clientConfig EXCEPT ![s] = NotRequested]
    /\ configOp' = "restart"
    /\ UNCHANGED <<schemaDeclared, exposeToBrowser, rawConfig>>
    /\ UNCHANGED notConfigVars

ConfigIdle ==
    /\ schemaDeclared = TRUE
    /\ exposeToBrowser = {}
    /\ rawConfig = [s \in Servers |-> [k \in ConfigKeys |-> UNSET]]
    /\ readResult = [s \in Servers |-> NotRead]
    /\ clientConfig = [s \in Servers |-> NotRequested]
    /\ configOp = "start"

ConfigNext ==
    \/ \E s \in Servers : ReadConfig(s)
    \/ \E s \in Servers : GetClientConfig(s)
    \/ \E s \in Servers : RestartServer(s)

(***************************************************************************)
(* ---------------------- dashboard application -------------------------- *)
(***************************************************************************)
\* The data views of the fixtures: one that stays, one the tests unload
DataViewIds == {"logstash-*", "to-be-deleted"}
\* The saved dashboards of the fixtures, each with the data view every one
\* of its panels refers to
SavedDashboards ==
    [t \in {"few panels", "dashboard with missing index pattern", "dashboard with two sources"}
       |-> CASE t = "few panels" -> <<"logstash-*", "logstash-*">>
             [] t = "dashboard with missing index pattern" -> <<"to-be-deleted">>
             [] t = "dashboard with two sources" -> <<"logstash-*", "to-be-deleted">>]
NEW_DASHBOARD == "New Dashboard"

\* The visible text of an embeddable, as the phrases it is made of
MissingDataViewText(id) == <<"Could not locate that data view", " (id: ", id, ")">>
RenderedText == <<"chart">>
LoadingText == <<>>
Contains(text, phrase) == \E i \in 1..Len(text) : text[i] = phrase

\* Mutation of resolvePanel: a panel without its data view renders empty
resolvePanel_NoError(dv, saved) ==
    IF dv \in saved THEN [dataView |-> dv, status |-> "rendered", text |-> RenderedText]
    ELSE [dataView |-> dv, status |-> "rendered", text |-> LoadingText]

\* An embeddable has looked for its data view: it renders, or it shows the
\* embeddableError with the message of the missing saved object
resolvePanel(dv, saved) ==
    IF dv \in saved THEN [dataView |-> dv, status |-> "rendered", text |-> RenderedText]
    ELSE [dataView |-> dv, status |-> "error", text |-> MissingDataViewText(dv)]

\* ---- the ES|QL editor ----
BUCKET_OPEN == "FROM logstash* | STATS COUNT(*) BY BUCKET(@timestamp,"
SPACE == " "
CLOSE_PAREN == ")"
INTERVAL_VARIABLE == "?interval"
\* The queries typed into the editor
EsqlQueries == {<<BUCKET_OPEN, SPACE, CLOSE_PAREN>>, <<"FROM logstash* | LIMIT 10">>}
IntervalOptions == {"1 hour", "1 day"}

\* Insert token tok into text with c tokens to its left
InsertAt(text, c, tok) == SubSeq(text, 1, c) \o <<tok>> \o SubSeq(text, c + 1, Len(text))

\* The editor suggests "Create control" where an interval is expected: after
\* the comma of BUCKET(@timestamp, and blanks only
ControlSuggested(text, c) ==
    /\ c >= 2
    /\ text[1] = BUCKET_OPEN
    /\ \A j \in 2..c : text[j] = SPACE

\* Mutation of insertVariable: the variable is appended to the query
insertVariable_Append(text, c, name) == text \o <<name>>

\* Saving the control writes the variable into the query at the cursor
insertVariable(text, c, name) == InsertAt(text, c, name)

DashIdle ==
    /\ savedDataViews = DataViewIds
    /\ dashPage = "landing"
    /\ dashTitle = ""
    /\ isLoading = FALSE
    /\ panels = <<>>
    /\ esqlEditorOpen = FALSE
    /\ esqlText = <<>>
    /\ esqlCursor = 0
    /\ suggestionsOpen = FALSE
    /\ flyoutOpen = FALSE
    /\ flyoutValues = {}
    /\ controls = {}
    /\ textAtFlyout = <<>>
    /\ cursorAtFlyout = 0
    /\ dashOp = "navigateToApp"

\* After the fixtures are imported and the app is opened: the landing page
DashInit == DashIdle

editorVars == <<esqlEditorOpen, esqlText, esqlCursor, suggestionsOpen, flyoutOpen,
                flyoutValues, controls, textAtFlyout, cursorAtFlyout>>
pageVars == <<dashPage, dashTitle, isLoading, panels>>

\* kibanaServer.importExport.load / unload of a data view, done by the tests
\* before a dashboard is opened.
ImportDataView(dv) ==
    /\ dashPage = "landing"
    /\ dv \notin savedDataViews
    /\ savedDataViews' = savedDataViews \cup {dv}
    /\ dashOp' = "import"
    /\ UNCHANGED <<pageVars, editorVars>>
    /\ UNCHANGED notDashVars

UnloadDataView(dv) ==
    /\ dashPage = "landing"
    /\ dv \in savedDataViews
    /\ savedDataViews' = savedDataViews \ {dv}
    /\ dashOp' = "unload"
    /\ UNCHANGED <<pageVars, editorVars>>
    /\ UNCHANGED notDashVars

\* dashboard.loadSavedDashboard(title): the panels appear and start loading.
LoadSavedDashboard(title) ==
    /\ dashPage = "landing"
    /\ dashPage' = "view"
    /\ dashTitle' = title
    /\ isLoading' = TRUE
    /\ panels' = [i \in 1..Len(SavedDashboards[title]) |->
                    [dataView |-> SavedDashboards[title][i], status |-> "loading",
                     text |-> LoadingText]]
    /\ dashOp' = "loadSavedDashboard"
    /\ UNCHANGED <<savedDataViews, editorVars>>
    /\ UNCHANGED notDashVars

\* One panel finishes loading.
PanelLoaded(i) ==
    /\ i \in 1..Len(panels)
    /\ panels[i].status = "loading"
    /\ panels' = [panels EXCEPT ![i] = resolvePanel(panels[i].dataView, savedDataViews)]
    /\ dashOp' = "panelLoaded"
    /\ UNCHANGED <<savedDataViews, dashPage, dashTitle, isLoading, editorVars>>
    /\ UNCHANGED notDashVars

\* The loading indicator goes away once no panel is loading.
LoadingFinished ==
    /\ isLoading
    /\ \A i \in 1..Len(panels) : panels[i].status # "loading"
    /\ isLoading' = FALSE
    /\ dashOp' = "loadingFinished"
    /\ UNCHANGED <<savedDataViews, dashPage, dashTitle, panels, editorVars>>
    /\ UNCHANGED notDashVars

\* dashboard.gotoDashboardLandingPage(); an unsaved new dashboard is discarded.
GotoLandingPage ==
    /\ dashPage # "landing"
    /\ ~flyoutOpen
    /\ dashPage' = "landing"
    /\ dashTitle' = ""
    /\ isLoading' = FALSE
    /\ panels' = <<>>
    /\ esqlEditorOpen' = FALSE
    /\ esqlText' = <<>>
    /\ esqlCursor' = 0
    /\ suggestionsOpen' = FALSE
    /\ controls' = {}
    /\ dashOp' = "gotoLandingPage"
    /\ UNCHANGED <<savedDataViews, flyoutOpen, flyoutValues, textAtFlyout, cursorAtFlyout>>
    /\ UNCHANGED notDashVars

\* clickNewDashboard, switchToEditMode and add an ES|QL panel: the panel is
\* there and its inline editor is open.
AddEsqlPanel ==
    /\ dashPage = "landing"
    /\ "logstash-*" \in savedDataViews
    /\ dashPage' = "edit"
    /\ dashTitle' = NEW_DASHBOARD
    /\ isLoading' = FALSE
    /\ panels' = <<[dataView |-> "logstash-*", status |-> "rendered", text |-> RenderedText]>>
    /\ esqlEditorOpen' = TRUE
    /\ esqlText' = <<"FROM logstash* | LIMIT 10">>
    /\ esqlCursor' = 1
    /\ suggestionsOpen' = FALSE
    /\ dashOp' = "addEsqlPanel"
    /\ UNCHANGED <<savedDataViews, flyoutOpen, flyoutValues, controls, textAtFlyout,
                   cursorAtFlyout>>
    /\ UNCHANGED notDashVars

Typing == esqlEditorOpen /\ ~flyoutOpen

\* esql.typeEsqlEditorQuery(q): the text is replaced, the cursor is at its end.
TypeEsqlEditorQuery(q) ==
    /\ Typing
    /\ esqlText # q
    /\ esqlText' = q
    /\ esqlCursor' = Len(q)
    /\ suggestionsOpen' = FALSE
    /\ dashOp' = "typeQuery"
    /\ UNCHANGED <<savedDataViews, pageVars, esqlEditorOpen, flyoutOpen, flyoutValues,
                   controls, textAtFlyout, cursorAtFlyout>>
    /\ UNCHANGED notDashVars

\* browser.pressKeys(ARROW_LEFT) / ARROW_RIGHT
PressArrow(d) ==
    /\ Typing
    /\ esqlCursor + d \in 0..Len(esqlText)
    /\ esqlCursor' = esqlCursor + d
    /\ suggestionsOpen' = FALSE
    /\ dashOp' = "arrow"
    /\ UNCHANGED <<savedDataViews, pageVars, esqlEditorOpen, esqlText, flyoutOpen,
                   flyoutValues, controls, textAtFlyout, cursorAtFlyout>>
    /\ UNCHANGED notDashVars

\* browser.pressKeys(SPACE): a blank is typed and the suggestions for the new
\* cursor position load.
PressSpace ==
    /\ Typing
    /\ Len(esqlText) < MaxTextLen
    /\ esqlText' = InsertAt(esqlText, esqlCursor, SPACE)
    /\ esqlCursor' = esqlCursor + 1
    /\ suggestionsOpen' = (controls = {} /\ ControlSuggested(esqlText', esqlCursor'))
    /\ dashOp' = "space"
    /\ UNCHANGED <<savedDataViews, pageVars, esqlEditorOpen, flyoutOpen, flyoutValues,
                   controls, textAtFlyout, cursorAtFlyout>>
    /\ UNCHANGED notDashVars

\* browser.pressKeys(ENTER) on the first suggestion, "Create control": the
\* flyout opens for the cursor position.
AcceptCreateControl ==
    /\ Typing
    /\ suggestionsOpen
    /\ suggestionsOpen' = FALSE
    /\ flyoutOpen' = TRUE
    /\ flyoutValues' = {}
    /\ textAtFlyout' = esqlText
    /\ cursorAtFlyout' = esqlCursor
    /\ dashOp' = "openFlyout"
    /\ UNCHANGED <<savedDataViews, pageVars, esqlEditorOpen, esqlText, esqlCursor, controls>>
    /\ UNCHANGED notDashVars

\* comboBox.set('esqlValuesOptions', v)
SetValuesOption(v) ==
    /\ flyoutOpen
    /\ v \notin flyoutValues
    /\ flyoutValues' = flyoutValues \cup {v}
    /\ dashOp' = "setValue"
    /\ UNCHANGED <<savedDataViews, pageVars, esqlEditorOpen, esqlText, esqlCursor,
                   suggestionsOpen, flyoutOpen, controls, textAtFlyout, cursorAtFlyout>>
    /\ UNCHANGED notDashVars

\* click saveEsqlControlsFlyoutButton: the control is created and the query
\* of the editor is updated.
SaveControl ==
    /\ flyoutOpen
    /\ flyoutValues # {}
    /\ Len(esqlText) < MaxTextLen
    /\ flyoutOpen' = FALSE
    /\ controls' = controls \cup {[variable |-> INTERVAL_VARIABLE, values |-> flyoutValues]}
    /\ esqlText' = insertVariable(esqlText, esqlCursor, INTERVAL_VARIABLE)
    /\ esqlCursor' = esqlCursor + 1
    /\ dashOp' = "saveControl"
    /\ UNCHANGED <<savedDataViews, pageVars, esqlEditorOpen, suggestionsOpen, flyoutValues,
                   textAtFlyout, cursorAtFlyout>>
    /\ UNCHANGED notDashVars

\* The flyout is closed without saving.
CancelControl ==
    /\ flyoutOpen
    /\ flyoutOpen' = FALSE
    /\ dashOp' = "cancelControl"
    /\ UNCHANGED <<savedDataViews, pageVars, esqlEditorOpen, esqlText, esqlCursor,
                   suggestionsOpen, flyoutValues, controls, textAtFlyout, cursorAtFlyout>>
    /\ UNCHANGED notDashVars

\* testSubjects.exists('controls-group-wrapper')
controlGroupVisible == controls # {}

DashboardNext ==
    \/ \E dv \in DataViewIds : ImportDataView(dv)
    \/ \E dv \in DataViewIds : UnloadDataView(dv)
    \/ \E t \in DOMAIN SavedDashboards : LoadSavedDashboard(t)
    \/ \E i \in 1..2 : PanelLoaded(i)
    \/ LoadingFinished
    \/ GotoLandingPage
    \/ AddEsqlPanel
    \/ \E q \in EsqlQueries : TypeEsqlEditorQuery(q)
    \/ \E d \in {1, 0 - 1} : PressArrow(d)
    \/ PressSpace
    \/ AcceptCreateControl
    \/ \E v \in IntervalOptions : SetValuesOption(v)
    \/ SaveControl
    \/ CancelControl

(***************************************************************************)
(* Specifications                                                          *)
(***************************************************************************)
RouteIdle ==
    /\ licenseValid = TRUE
    /\ pc = "idle"
    /\ req = NoRequest
    /\ response = NoResponse
    /\ thrown = ""
    /\ calls = <<>>
    /\ trackedCount = 0

\* The hooks' results while only the user acts: a platinum license, ML fields
\* loaded, no ES|QL fields loading, nothing selected for suppression.
HooksIdle ==
    /\ license = "platinum"
    /\ mlRuleConfigLoading = FALSE
    /\ mlSuppressionFields = {"by_field"}
    /\ isEsqlSuppressionLoading = FALSE
    /\ alertSuppressionFields = FieldList(<<>>)
    /\ isQueryBarValid = TRUE
    /\ shouldLoadQueryDynamically = FALSE

FormIdle ==
    /\ ruleType = "query"
    /\ previousRuleType = UNDEFINED
    /\ queryBar = defaultCustomQuery.forNormalRules
    /\ esqlQueryRef = {}
    /\ view = RenderRows("query")
    /\ queryBefore = defaultCustomQuery.forNormalRules
    /\ refBefore = {}
    /\ esqlLeftWith = {}
    /\ lastOp = "mount"
    /\ formState = PristineFormState
    /\ formStateBefore = PristineFormState
    /\ valueAfterFormReset = defaultCustomQuery.forNormalRules
    /\ HooksIdle
    /\ dataSourceType = "indexPatterns"
    /\ layout = RenderLayout("query", "indexPatterns")
    /\ suppression = RenderSuppression("query", defaultCustomQuery.forNormalRules,
                         FieldList(<<>>), "platinum", FALSE, {"by_field"}, FALSE)

RouteNext ==
    \/ \E r \in Requests : Receive(r)
    \/ verifyApiAccess
    \/ checkContext
    \/ trackLegacyRouteUsage
    \/ getRulesClient
    \/ rulesClientDelete
    \/ returnNoContent
    \/ Finish
    \/ LicenseChange

FormNext ==
    \/ \E t \in RuleTypes : ChangeRuleType(t)
    \/ \E v \in EditorValues(ruleType) : EditQuery(v)
    \/ \E v \in TimelineValues : SetRuleFromTimeline(v)
    \/ Rerender
    \/ \E d \in DataSourceTypes : onChangeDataSource(d)
    \/ \E ok \in BOOLEAN : ValidateForm(ok)

HooksNext ==
    \/ \E l \in LicenseLevels : LicenseLevelChange(l)
    \/ \E loading \in BOOLEAN : \E fields \in {{}, {"by_field"}} :
          MlRuleConfigChange(loading, fields)
    \/ EsqlFieldsLoadingChange
    \/ \E f \in SuppressionSelections : SetAlertSuppressionFields(f)
    \/ \E valid \in BOOLEAN : SetIsQueryBarValid(valid)
    \/ ToggleShouldLoadQueryDynamically
    \/ SavedQueryError

RouteSpecInit == RouteInit /\ FormIdle /\ ConfigIdle /\ DashIdle
\* The user acts on the form while the hooks' results stay as they are.
FormSpecInit  == FormInit /\ HooksIdle /\ RouteIdle /\ ConfigIdle /\ DashIdle
\* The hooks' results and props change under a form whose rule type stays.
HooksSpecInit ==
    /\ FormInit
    /\ dataSourceType = "indexPatterns"
    /\ queryBar.filters = <<>>
    /\ queryBar.query.language # "lucene"
    /\ RouteIdle
    /\ ConfigIdle
    /\ DashIdle
ConfigSpecInit == ConfigInit /\ RouteIdle /\ FormIdle /\ DashIdle
DashboardSpecInit == DashInit /\ RouteIdle /\ FormIdle /\ ConfigIdle

RouteSpec == RouteSpecInit /\ [][RouteNext]_vars
FormSpec  == FormSpecInit /\ [][FormNext]_vars
HooksSpec == HooksSpecInit /\ [][HooksNext]_vars
ConfigSpec == ConfigSpecInit /\ [][ConfigNext]_vars
DashboardSpec == DashboardSpecInit /\ [][DashboardNext]_vars

(***************************************************************************)
(* -------------------- legacy delete route: claims ---------------------- *)
(***************************************************************************)
Called(fn) == \E i \in 1..Len(calls) : calls[i].fn = fn
\* The handler has finished with the request held in req.
Served == pc \in {"done", "idle"} /\ req # NoRequest
DeleteCalls == {i \in 1..Len(calls) : calls[i].fn = "rulesClient.delete"}

\* C1: a request whose license check passed, whose alerting context is there
\* and whose rulesClient.delete({id}) completed without error is answered
\* with HTTP 204 and an empty body.
C1_SuccessIs204 ==
    (/\ Served
     /\ req.alerting
     /\ Called("rulesClient.delete")
     /\ thrown = "")
    => response = [status |-> 204, body |-> ""]

C1_Witness ==
    /\ Served
    /\ req.alerting
    /\ Called("rulesClient.delete")
    /\ thrown = ""
    /\ response.status = 204

\* C2 as stated: whenever the alerting context is unavailable the handler
\* answers 400 'RouteHandlerContext is not registered for alerting'
\* and rulesClient.delete is never invoked in that request.
C2_Original ==
    /\ (Served /\ ~req.alerting)
         => response = [status |-> 400,
                        body |-> "RouteHandlerContext is not registered for alerting"]
    /\ (req # NoRequest /\ ~req.alerting) => DeleteCalls = {}

\* C2 amended: when the license check has passed and the alerting context is
\* unavailable the handler answers 400 with that body; whenever the alerting
\* context is unavailable rulesClient.delete is never invoked in that request.
C2_MissingContextIs400 ==
    /\ (Served /\ ~req.alerting /\ thrown # "license")
         => response = [status |-> 400,
                        body |-> "RouteHandlerContext is not registered for alerting"]
    /\ (req # NoRequest /\ ~req.alerting) => DeleteCalls = {}

C2_Witness ==
    /\ Served
    /\ ~req.alerting
    /\ Called("verifyApiAccess")
    /\ thrown = ""
    /\ response.status = 400

\* C3: in every request rulesClient.delete is invoked at most once, and when
\* it is invoked its argument is the id path parameter of that request.
C3_PassThrough ==
    /\ Cardinality(DeleteCalls) <= 1
    /\ \A i \in DeleteCalls : calls[i].arg = req.id

C3_Witness ==
    /\ Served
    /\ Cardinality(DeleteCalls) = 1
    /\ req.id = "rule-2"
    /\ \A i \in DeleteCalls : calls[i].arg = "rule-2"

\* C4: the only error response the handler builds is the 400 for a missing
\* alerting context; a failing license check, getRulesClient or
\* rulesClient.delete ends the handler with an error raised to
\* handleLegacyErrors and no response of its own, and a request whose
\* rulesClient.delete failed never gets the 204.
C4_OnlyOneBuiltError ==
    /\ response.status \in {0, 204, 400}
    /\ response.status = 400
         => (/\ ~req.alerting
             /\ thrown = ""
             /\ response.body = "RouteHandlerContext is not registered for alerting")
    /\ thrown # "" => (Served /\ response = NoResponse)
    /\ (Served /\ Called("getRulesClient") /\ req.getRulesClientThrows)
         => thrown = "getRulesClient"
    /\ (Served /\ Called("rulesClient.delete") /\ req.deleteThrows)
         => thrown = "delete"
    /\ (Served /\ calls = <<[fn |-> "verifyApiAccess", arg |-> ""]>> /\ req.alerting)
         => thrown = "license"
    /\ (Called("rulesClient.delete") /\ req.deleteThrows) => response.status # 204

C4_Witness ==
    /\ Served
    /\ Called("rulesClient.delete")
    /\ req.deleteThrows
    /\ thrown = "delete"
    /\ response = NoResponse

\* C20: the license check runs before the alerting-context check: a request
\* whose license check failed never gets the 400 'RouteHandlerContext is
\* not registered for alerting', never tracks legacy usage and never calls
\* rulesClient.delete; the license check is the only call it made.
C20_LicenseCheckFirst ==
    /\ thrown = "license"
         => (/\ response = NoResponse
             /\ ~Called("trackLegacyRouteUsage")
             /\ ~Called("getRulesClient")
             /\ ~Called("rulesClient.delete")
             /\ calls = <<[fn |-> "verifyApiAccess", arg |-> ""]>>)
    /\ (calls # <<>>) => calls[1].fn = "verifyApiAccess"
    /\ response.status = 400 => Called("verifyApiAccess")

C20_Witness ==
    /\ Served
    /\ thrown = "license"
    /\ ~req.alerting
    /\ response = NoResponse
    /\ calls = <<[fn |-> "verifyApiAccess", arg |-> ""]>>

(***************************************************************************)
(* -------------------- rule definition form: claims --------------------- *)
(***************************************************************************)
\* The last step was the user switching the rule type: previousRuleType is
\* the type left, ruleType the type entered, queryBefore the query bar as
\* it was when the switch happened.
Switched == lastOp = "changeRuleType"

\* The value differs (by value) from every type default.
UserEntered(v) ==
    /\ v # defaultCustomQuery.forNormalRules
    /\ v # defaultCustomQuery.forThreatMatchRules
    /\ v # defaultCustomQuery.forEsqlRules

\* C5 as stated: on a switch across the threat_match boundary with the query
\* still at the default of the side left, the query bar gets the default of
\* the side entered: '' -> '*:*' entering threat_match from any other type,
\* '*:*' -> '' leaving threat_match for any other type.
C5_Original ==
    Switched =>
      /\ (/\ isThreatMatchRule(ruleType) /\ ~isThreatMatchRule(previousRuleType)
          /\ queryBefore = defaultCustomQuery.forNormalRules)
           => queryBar = defaultCustomQuery.forThreatMatchRules
      /\ (/\ ~isThreatMatchRule(ruleType) /\ isThreatMatchRule(previousRuleType)
          /\ queryBefore = defaultCustomQuery.forThreatMatchRules)
           => queryBar = defaultCustomQuery.forNormalRules

\* C5 amended: as C5, except that leaving threat_match for ES|QL does not end
\* with '': the query bar then holds the saved ES|QL query if one was
\* recorded and the ES|QL default otherwise.
C5_ThreatMatchDefaultSwap ==
    Switched =>
      /\ (/\ isThreatMatchRule(ruleType) /\ ~isThreatMatchRule(previousRuleType)
          /\ queryBefore = defaultCustomQuery.forNormalRules)
           => queryBar = defaultCustomQuery.forThreatMatchRules
      /\ (/\ ~isThreatMatchRule(ruleType) /\ isThreatMatchRule(previousRuleType)
          /\ queryBefore = defaultCustomQuery.forThreatMatchRules)
           => queryBar = IF isEsqlRule(ruleType)
                           THEN Coalesce(refBefore, defaultCustomQuery.forEsqlRules)
                           ELSE defaultCustomQuery.forNormalRules

C5_Witness ==
    /\ Switched
    /\ isThreatMatchRule(previousRuleType)
    /\ ruleType = "query"
    /\ queryBefore = defaultCustomQuery.forThreatMatchRules
    /\ queryBar = defaultCustomQuery.forNormalRules

C8_SwitchToEsql ==
    (Switched /\ isEsqlRule(ruleType))
    => /\ queryBar = (IF refBefore # {} THEN CHOOSE v \in refBefore : TRUE
                      ELSE [query |-> [query |-> "", language |-> "esql"],
                            filters |-> <<>>, saved_id |-> "null"])
       /\ queryBar.query.language = "esql"
       /\ queryBar # queryBefore

C8_Witness ==
    /\ Switched
    /\ isEsqlRule(ruleType)
    /\ refBefore = {}
    /\ UserEntered(queryBefore)
    /\ queryBar = defaultCustomQuery.forEsqlRules

\* C9: after a switch from ES|QL to another rule type the query bar holds
\* the default of the new type, '*:*' for threat_match and '' for every
\* other type, whatever it held before.
C9_SwitchFromEsql ==
    (Switched /\ isEsqlRule(previousRuleType))
    => /\ queryBar.query.query = (IF ruleType = "threat_match" THEN "*:*" ELSE "")
       /\ queryBar.query.language = "kuery"
       /\ queryBar.filters = <<>>

C9_Witness ==
    /\ Switched
    /\ isEsqlRule(previousRuleType)
    /\ ruleType = "threat_match"
    /\ UserEntered(queryBefore)
    /\ queryBar.query.query = "*:*"

\* C10: the rule-type rows shown follow the rule type: ML job select and
\* anomaly threshold iff machine_learning, threshold input iff threshold,
\* threat-match input iff threat_match, new-terms inputs iff new_terms; so
\* at most one of the four is visible.
C10_RowsFollowRuleType ==
    /\ view.mlJobAndAnomalyThreshold <=> ruleType = "machine_learning"
    /\ view.thresholdInput <=> ruleType = "threshold"
    /\ view.threatMatchInput <=> ruleType = "threat_match"
    /\ view.newTermsInput <=> ruleType = "new_terms"
    /\ Cardinality({r \in DOMAIN view : view[r]}) <= 1

C10_Witness ==
    /\ Switched
    /\ previousRuleType = "machine_learning"
    /\ ruleType = "new_terms"
    /\ view.newTermsInput
    /\ ~view.mlJobAndAnomalyThreshold

\* C11: in every form state the query row is visible iff the rule type is not
\* machine learning, the data-source selector is visible iff the type is
\* neither machine learning nor ES|QL, exactly one query editor is rendered
\* (the EQL editor iff eql, the ES|QL query bar iff esql, the generic query
\* bar for every other type), and exactly one of the data-view selector and
\* the index-pattern input is visible, the one dataSourceType names.
C11_LayoutFollowsRuleType ==
    /\ layout.queryRow <=> ruleType # "machine_learning"
    /\ layout.dataSource <=> ruleType \notin {"machine_learning", "esql"}
    /\ layout.eqlQueryEdit <=> ruleType = "eql"
    /\ layout.esqlQueryBar <=> ruleType = "esql"
    /\ layout.queryBarMemo <=> ruleType \notin {"eql", "esql"}
    /\ Cardinality({e \in {"eqlQueryEdit", "esqlQueryBar", "queryBarMemo"} : layout[e]}) = 1
    /\ layout.dataViewSelector <=> dataSourceType = "dataView"
    /\ layout.indexPatternInput <=> dataSourceType = "indexPatterns"
    /\ layout.dataViewSelector # layout.indexPatternInput

C11_Witness ==
    /\ Switched
    /\ ruleType = "esql"
    /\ dataSourceType = "dataView"
    /\ layout.queryRow
    /\ ~layout.dataSource
    /\ layout.esqlQueryBar

\* C19: every change of the rule type resets the form with resetValues false:
\* the validation and submission state of the form is the pristine one, and
\* the reset step leaves the value of the field as it was before the change.
C19_ResetKeepsValues ==
    (Switched \/ (lastOp = "setRuleFromTimeline" /\ ruleType = "eql"))
    => /\ formState = PristineFormState
       /\ valueAfterFormReset = queryBefore

C19_Witness ==
    /\ Switched
    /\ formStateBefore.isSubmitted
    /\ formStateBefore.isValid = "false"
    /\ formState = PristineFormState
    /\ UserEntered(queryBefore)
    /\ valueAfterFormReset = queryBefore

(***************************************************************************)
(* Alert suppression and saved queries: claims (checked under HooksSpec)   *)
(***************************************************************************)
\* The claims' "suppression fields are selected": the list is non-empty
FieldsSelected == alertSuppressionFields.defined /\ alertSuppressionFields.value # <<>>

\* C12: whenever suppression fields are selected, the suppression group-by
\* input is not disabled, whatever the license level, the EQL query shape,
\* the ML field availability and the ES|QL field loading state.
C12_SelectedNeverDisabled ==
    FieldsSelected => ~suppression.isSuppressionGroupByDisabled

C12_Witness ==
    /\ FieldsSelected
    /\ license = "basic"
    /\ isEsqlSuppressionLoading
    /\ suppression.areSuppressionFieldsDisabled
    /\ ~suppression.isSuppressionGroupByDisabled
    /\ lastOp = "propsChange"

\* C13: the suppression fields are disabled if the license is below the
\* minimum for suppression, or an EQL sequence query is used on an EQL rule
\* with no suppression fields selected, or the rule is machine learning and
\* the ML field information is loading or empty; for a non-threshold rule
\* with no suppression fields selected each of the three alone disables the
\* group-by input.
C13_Original ==
    LET insufficient == license = "basic"
        sequence     == /\ ruleType = "eql"
                        /\ queryBar.query.query \in SequenceTexts
                        /\ ~FieldsSelected
        noMlFields   == /\ ruleType = "machine_learning"
                        /\ (mlRuleConfigLoading \/ mlSuppressionFields = {})
    IN  /\ (insufficient \/ sequence \/ noMlFields)
           => suppression.areSuppressionFieldsDisabled
        /\ (ruleType # "threshold" /\ ~FieldsSelected
              /\ (insufficient \/ sequence \/ noMlFields))
           => suppression.isSuppressionGroupByDisabled

\* C18: if a saved query failed to load, shouldLoadQueryDynamically is reset
\* to false.
C18_Original ==
    lastOp = "savedQueryError" => shouldLoadQueryDynamically = FALSE

(***************************************************************************)
(* Dashboard application: claims (checked under DashboardSpec)             *)
(***************************************************************************)
MISSING_DATA_VIEW_MESSAGE == "Could not locate that data view"

\* C14: when a dashboard that references a missing data view has been loaded
\* and loading has finished, an embeddable error is shown whose visible text
\* contains 'Could not locate that data view'.
C14_MissingDataViewError ==
    (/\ dashPage = "view"
     /\ ~isLoading
     /\ \E i \in 1..Len(panels) : panels[i].dataView \notin savedDataViews)
    => \E i \in 1..Len(panels) :
          /\ panels[i].status = "error"
          /\ Contains(panels[i].text, MISSING_DATA_VIEW_MESSAGE)

C14_Witness ==
    /\ dashOp = "loadingFinished"
    /\ dashTitle = "dashboard with missing index pattern"
    /\ "to-be-deleted" \notin savedDataViews
    /\ ~isLoading
    /\ panels[1].status = "error"

\* C15: after an ES|QL interval control was added from the editor suggestion
\* and saved, the controls group is visible and the query is the query the
\* flyout was opened on with ?interval inserted at the cursor, the text left
\* and right of the cursor unchanged; 'BUCKET(@timestamp, )' with a blank
\* typed before the parenthesis becomes 'BUCKET(@timestamp,  ?interval)'.
C15_IntervalInsertedAtCursor ==
    dashOp = "saveControl"
    => LET c == cursorAtFlyout IN
       /\ controlGroupVisible
       /\ Len(esqlText) = Len(textAtFlyout) + 1
       /\ esqlText[c + 1] = "?interval"
       /\ \A j \in 1..c : esqlText[j] = textAtFlyout[j]
       /\ \A j \in (c + 1)..Len(textAtFlyout) : esqlText[j + 1] = textAtFlyout[j]
       /\ (textAtFlyout = <<BUCKET_OPEN, " ", " ", ")">> /\ c = 3)
          => esqlText = <<BUCKET_OPEN, " ", " ", "?interval", ")">>

C15_Witness ==
    /\ dashOp = "saveControl"
    /\ textAtFlyout = <<BUCKET_OPEN, " ", " ", ")">>
    /\ cursorAtFlyout = 3
    /\ flyoutValues = {"1 hour", "1 day"}
    /\ esqlText = <<BUCKET_OPEN, " ", " ", "?interval", ")">>
    /\ controls # {}

(***************************************************************************)
(* Plugin configuration service: claims (checked under ConfigSpec)         *)
(***************************************************************************)
\* C16: a plugin that declared no schema never gets a value when it reads
\* its configuration: ConfigService throws an error.
C16_SchemaMandatory ==
    ~schemaDeclared
    => \A s \in Servers : readResult[s] # NotRead => readResult[s].status = "error"

C16_Witness ==
    /\ ~schemaDeclared
    /\ configOp = "read"
    /\ readResult["server-1"].status = "error"
    /\ rawConfig["server-1"]["secret"] # UNSET

\* C17: the client-side configuration holds only properties allow-listed in
\* exposeToBrowser, and two servers whose configurations agree on every
\* exposed property give the same client-side configuration, whatever the
\* other properties hold.
C17_OnlyExposedProperties ==
    /\ \A s \in Servers :
          clientConfig[s].status = "ok"
          => DOMAIN clientConfig[s].value \subseteq exposeToBrowser
    /\ \A s, t \in Servers :
          (/\ readResult[s].status = "ok" /\ readResult[t].status = "ok"
           /\ clientConfig[s].status = "ok" /\ clientConfig[t].status = "ok"
           /\ \A k \in exposeToBrowser : readResult[s].value[k] = readResult[t].value[k])
          => clientConfig[s] = clientConfig[t]

C17_Witness ==
    /\ exposeToBrowser = {"uiProp"}
    /\ readResult["server-1"].status = "ok"
    /\ readResult["server-2"].status = "ok"
    /\ readResult["server-1"].value["secret"] # readResult["server-2"].value["secret"]
    /\ readResult["server-1"].value["uiProp"] = "from kibana.yml"
    /\ clientConfig["server-1"].status = "ok"
    /\ clientConfig["server-1"] = clientConfig["server-2"]
    /\ clientConfig["server-1"].value["uiProp"] = "from kibana.yml"

=============================================================================
